---- MODULE Spec2Model ----
(***************************************************************************)
(* Model of mdutils (src/mdutils.py): the file selector iterdir, the       *)
(* default format function and the format run, the statistics classifier   *)
(* and the statistics run.                                                 *)
(*                                                                         *)
(* Text is a sequence of Unicode code points (naturals), so that the       *)
(* character ranges of the regular expressions are the ranges of the code. *)
(***************************************************************************)
EXTENDS Integers, Sequences, FiniteSets, TLC

VARIABLES
    \* ---- statistics classifier on one document (lines 129-180)
    raw,          \* the text read from the file
    goups,        \* _goups: the list of 10-tuples re.findall returns
    fstat,        \* _stat: the per-file Stat counter
    cpc,          \* position in the classifier
    \* ---- default format function applied once and again (lines 38-62)
    fraw,         \* the text handed to the format function
    once,         \* FormatResult of fraw, or None
    twice,        \* FormatResult of once.output, or None
    fpc,
    \* ---- the file system and iterdir (lines 12-29)
    disk,         \* path -> directory or file with its text
    path,         \* the path argument
    suffixes,     \* the suffixes argument, then the local of line 19
    recursive,    \* the recursive argument
    stack,        \* the list of paths still to visit
    result,       \* the list of selected files
    ipc,          \* position in iterdir
    \* ---- format (lines 65-83)
    cur,          \* index in the list of line 71 of the file i being handled
    fmt_raw,      \* raw of line 73
    fmt_result,   \* result of line 74, or None
    warned,       \* the files named by the warnings printed at line 83
    rpc,          \* position in format
    \* ---- statistics (lines 108-199)
    verbose,
    redirect_to,  \* None or the name of the report file
    redirect_mode,
    target,       \* the file redirect_to names: whether it exists, its reports
    files,
    print_verbosely,
    inventory,    \* bound at line 120 only when print_verbosely
    path_list,
    stat,         \* the aggregate Stat
    sidx,         \* index in path_list of the next file
    printed,      \* the reports printed at line 199
    spc           \* position in statistics

classVars == <<raw, goups, fstat, cpc>>
funcVars == <<fraw, once, twice, fpc>>
walkVars == <<path, suffixes, recursive, stack, result, ipc>>
runVars == <<cur, fmt_raw, fmt_result, warned, rpc>>
statVars == <<verbose, redirect_to, redirect_mode, target, files,
              print_verbosely, inventory, path_list, stat, sidx, printed, spc>>
vars == <<classVars, funcVars, disk, walkVars, runVars, statVars>>

None == [none |-> TRUE]

(***************************************************************************)
(* Bounds                                                                  *)
(***************************************************************************)
\* longest document handed to the classifier
MaxDocLen == 4

\* longest document over FormatChars handed to the format function
MaxFormatLen == 4

\* longest document over BlankChars handed to the format function
MaxBlankLen == 6

(***************************************************************************)
(* Characters                                                              *)
(***************************************************************************)
\* the characters the classified documents are made of:
\* a . space newline, U+597D (CJK), U+3042 (Hiragana), U+30A2 (Katakana),
\* U+20000 (CJK extension B)
StatChars == {97, 46, 32, 10, 22909, 12354, 12450, 131072}

IsNewline(c) == c = 10

\* \s of the re module on str, on the code points up to U+3000
IsSpace(c) ==
    \/ c \in 9..13
    \/ c \in 28..32
    \/ c \in {133, 160, 5760, 8232, 8233, 8239, 8287, 12288}
    \/ c \in 8192..8202

\* \w of the re module on str: the ASCII part, and the ideograph and kana
\* letters
IsWord(c) ==
    \/ c \in 48..57
    \/ c \in 65..90
    \/ c = 95
    \/ c \in 97..122
    \/ c \in 19968..40959
    \/ c \in 13312..19903
    \/ c \in 12353..12438
    \/ c \in 12449..12538
    \/ c \in 131072..173791

\* [U+4E00-U+9FFF]
IsCJK(c) == c \in 19968..40959

\* [U+3400-U+4DBF U+20000-U+2A6DF U+2A700-U+2EBEF U+30000-U+3134F]
IsCJKExt(c) ==
    \/ c \in 13312..19903
    \/ c \in 131072..173791
    \/ c \in 173824..191471
    \/ c \in 196608..201551

\* [U+3040-U+309F]
IsHiragana(c) == c \in 12352..12447

\* [U+30A0-U+30FF]
IsKatakana(c) == c \in 12448..12543

(***************************************************************************)
(* Sequences                                                               *)
(***************************************************************************)
DocsOver(chars, n) == UNION {[1..k -> chars] : k \in 0..n}

RECURSIVE Count(_, _)
\* str.count("\n") and the like: occurrences of c in s
Count(s, c) ==
    IF s = <<>> THEN 0
    ELSE (IF s[1] = c THEN 1 ELSE 0) + Count(Tail(s), c)

(***************************************************************************)
(* re.findall of the classifier's pattern (lines 130-142)                  *)
(***************************************************************************)
RECURSIVE SpaceStretchEnd(_, _)
\* last position of the stretch of \s characters that starts at i
\* (i - 1 when s[i] is not \s)
SpaceStretchEnd(s, i) ==
    IF i <= Len(s) /\ IsSpace(s[i]) THEN SpaceStretchEnd(s, i + 1) ELSE i - 1

\* one iteration of (\s*?\n) at i, were \s* lazy: it stops at the first
\* newline of the stretch
LazyIterEnd(s, i) ==
    LET e == SpaceStretchEnd(s, i)
        nl == {j \in i..e : IsNewline(s[j])}
    IN IF nl = {} THEN 0 ELSE CHOOSE j \in nl : \A k \in nl : j <= k

\* one iteration of (\s*\n) at i: \s* is greedy, so it takes the whole
\* stretch and gives back characters until a newline follows it; the position
\* of that newline (the last of the stretch), 0 if there is none
IterEnd(s, i) ==
    LET e == SpaceStretchEnd(s, i)
        nl == {j \in i..e : IsNewline(s[j])}
    IN IF nl = {} THEN 0 ELSE CHOOSE j \in nl : \A k \in nl : k <= j

RECURSIVE RunFrom(_, _, _)
\* ((\s*\n)+) after the iterations that end at position done (last is the
\* text of the last of them): <<end of group 7, text of group 8>>
RunFrom(s, done, last) ==
    LET e == IterEnd(s, done + 1)
    IN IF e = 0 THEN <<done, last>>
       ELSE RunFrom(s, e, SubSeq(s, done + 1, e))

Empty10 == [k \in 1..10 |-> <<>>]

\* the match at position i: <<end position, tuple of the 10 groups>>, or
\* <<0, ...>> when no alternative matches there
MatchAt(s, i) ==
    LET c == s[i]
        one(k) == <<i, [Empty10 EXCEPT ![k] = <<c>>]>>
        run == RunFrom(s, i - 1, <<>>)
    IN IF IsCJK(c) THEN one(1)
       ELSE IF IsCJKExt(c) THEN one(2)
       ELSE IF IsHiragana(c) THEN one(3)
       ELSE IF IsKatakana(c) THEN one(4)
       ELSE IF IsWord(c) THEN one(5)
       ELSE IF ~IsSpace(c) THEN one(6)
       ELSE IF run[1] >= i
            THEN <<run[1], [Empty10 EXCEPT ![7] = SubSeq(s, i, run[1]),
                                          ![8] = run[2]]>>
       ELSE IF IsSpace(c) THEN one(9)
       ELSE IF ~IsNewline(c) THEN one(10)
       ELSE <<0, Empty10>>

RECURSIVE FindAllFrom(_, _)
FindAllFrom(s, i) ==
    IF i > Len(s) THEN <<>>
    ELSE LET m == MatchAt(s, i)
         IN IF m[1] = 0 THEN FindAllFrom(s, i + 1)
            ELSE <<m[2]>> \o FindAllFrom(s, m[1] + 1)

FindAll(s) == FindAllFrom(s, 1)

(***************************************************************************)
(* Stat (a Counter: a key that was never set reads 0)                      *)
(***************************************************************************)
Keys == {"paragraphs", "non_blank_lines", "lines", "words", "CJK",
         "Hiragana", "Katakana", "punctuations", "whitespaces",
         "other_chars", "chars_no_spaces", "chars_with_spaces"}

Stat == [k \in Keys |-> 0]

Inc(st, k, n) == [st EXCEPT ![k] = @ + n]

\* a newline run counted as one whitespace
RunWhitespacesOne(p) == 1

\* whitespaces added by a newline run p: len(p) (line 167)
RunWhitespaces(p) == Len(p)

\* the body of the loop over _goups (lines 143-171)
CountUnit(st, u) ==
    IF u[1] # <<>> THEN Inc(Inc(st, "CJK", 1), "words", 1)
    ELSE IF u[2] # <<>> THEN Inc(Inc(st, "CJK", 1), "words", 1)
    ELSE IF u[3] # <<>> THEN Inc(Inc(st, "Hiragana", 1), "words", 1)
    ELSE IF u[4] # <<>> THEN Inc(Inc(st, "Katakana", 1), "words", 1)
    ELSE IF u[5] # <<>> THEN Inc(st, "words", 1)
    ELSE IF u[6] # <<>> THEN Inc(st, "punctuations", 1)
    ELSE IF u[7] # <<>>
         THEN LET linefeeds == Count(u[7], 10)
                  a == IF linefeeds > 1 THEN Inc(st, "paragraphs", 1) ELSE st
                  b == Inc(a, "non_blank_lines", 1)
                  c == Inc(b, "lines", linefeeds)
              IN Inc(c, "whitespaces", RunWhitespaces(u[7]))
    ELSE IF u[9] # <<>> THEN Inc(st, "whitespaces", 1)
    ELSE IF u[10] # <<>> THEN Inc(st, "other_chars", 1)
    ELSE st

RECURSIVE CountUnits(_, _)
CountUnits(st, us) ==
    IF us = <<>> THEN st ELSE CountUnits(CountUnit(st, us[1]), Tail(us))

\* the end-of-file adjustment (lines 172-178), on a non-empty _goups
EofAdjusted(st, us) ==
    LET linefeeds_at_EOF == Count(us[Len(us)][8], 10)
    IN IF linefeeds_at_EOF = 0
       THEN Inc(Inc(Inc(st, "paragraphs", 1), "non_blank_lines", 1), "lines", 1)
       ELSE IF linefeeds_at_EOF = 1 THEN Inc(st, "paragraphs", 1)
       ELSE st

\* the derived totals (lines 179-180)
Derived(st) ==
    LET a == [st EXCEPT !["chars_no_spaces"] =
                  st["words"] + st["punctuations"] + st["other_chars"]]
    IN [a EXCEPT !["chars_with_spaces"] =
                  a["chars_no_spaces"] + a["whitespaces"]]

\* the per-file tally of lines 129-180, or None when line 172 raises
\* IndexError
Tally(s) ==
    LET us == FindAll(s)
    IN IF us = <<>> THEN None
       ELSE Derived(EofAdjusted(CountUnits(Stat, us), us))

(***************************************************************************)
(* The classifier on one document, step by step                            *)
(***************************************************************************)
ClassInit ==
    /\ raw \in DocsOver(StatChars, MaxDocLen)
    /\ goups = <<>>
    /\ fstat = Stat
    /\ cpc = "read"

\* lines 129-171
Scan ==
    /\ cpc = "read"
    /\ goups' = FindAll(raw)
    /\ fstat' = CountUnits(Stat, goups')
    /\ cpc' = "scanned"
    /\ UNCHANGED raw
    /\ UNCHANGED <<funcVars, disk, walkVars, runVars, statVars>>

\* lines 172-178; _goups[-1] of an empty list raises IndexError
EofAdjust ==
    /\ cpc = "scanned"
    /\ IF goups = <<>>
       THEN cpc' = "IndexError" /\ UNCHANGED fstat
       ELSE cpc' = "adjusted" /\ fstat' = EofAdjusted(fstat, goups)
    /\ UNCHANGED <<raw, goups>>
    /\ UNCHANGED <<funcVars, disk, walkVars, runVars, statVars>>

\* lines 179-180
Derive ==
    /\ cpc = "adjusted"
    /\ fstat' = Derived(fstat)
    /\ cpc' = "done"
    /\ UNCHANGED <<raw, goups>>
    /\ UNCHANGED <<funcVars, disk, walkVars, runVars, statVars>>

(***************************************************************************)
(* __formatfunc_default (lines 38-62)                                      *)
(***************************************************************************)
\* a [ ] ( space newline, the curly quotes U+201C and U+201D, the backtick
FormatChars == {97, 91, 93, 40, 32, 10, 8220, 8221, 96}

\* a space newline
BlankChars == {97, 32, 10}

RECURSIVE LStrip(_)
LStrip(s) == IF s # <<>> /\ IsSpace(s[1]) THEN LStrip(Tail(s)) ELSE s

RECURSIVE RStrip(_)
RStrip(s) ==
    IF s # <<>> /\ IsSpace(s[Len(s)])
    THEN RStrip(SubSeq(s, 1, Len(s) - 1)) ELSE s

\* str.strip()
Strip(s) == RStrip(LStrip(s))

RECURSIVE RunEnd(_, _, _)
\* last position of the run of character c that starts at i (i - 1 if none)
RunEnd(s, i, c) ==
    IF i <= Len(s) /\ s[i] = c THEN RunEnd(s, i + 1, c) ELSE i - 1

RECURSIVE CollapseFrom(_, _)
CollapseFrom(s, i) ==
    IF i > Len(s) THEN <<>>
    ELSE LET e == RunEnd(s, i, 10)
         IN IF e - i + 1 >= 3 THEN <<10, 10>> \o CollapseFrom(s, e + 1)
            ELSE <<s[i]>> \o CollapseFrom(s, i + 1)

\* re.sub(r"\n{3,}", "\n\n", temp), line 42
CollapseNewlines(s) == CollapseFrom(s, 1)

\* the lookahead (?=[^\s\[\]][^\]]*\][^(]) after the [ at position i
OpenLookahead(s, i) ==
    /\ i + 1 <= Len(s)
    /\ ~IsSpace(s[i + 1]) /\ s[i + 1] \notin {91, 93}
    /\ \E j \in (i + 2)..Len(s) :
          /\ s[j] = 93
          /\ \A k \in (i + 2)..(j - 1) : s[k] # 93
          /\ j + 1 <= Len(s)
          /\ s[j + 1] # 40

RECURSIVE OpenFrom(_, _)
OpenFrom(s, i) ==
    IF i > Len(s) THEN <<>>
    ELSE (IF s[i] = 91 /\ OpenLookahead(s, i) THEN <<91, 32>> ELSE <<s[i]>>)
         \o OpenFrom(s, i + 1)

\* re.sub(r"\[(?=[^\s\[\]][^\]]*\][^(])", "[ ", temp), line 46
SpaceAfterOpen(s) == OpenFrom(s, 1)

RECURSIVE CloseFrom(_, _)
CloseFrom(s, i) ==
    IF i > Len(s) THEN <<>>
    ELSE (IF /\ s[i] = 93
             /\ i > 1 /\ ~IsSpace(s[i - 1]) /\ s[i - 1] \notin {91, 93}
             /\ ~(i + 1 <= Len(s) /\ s[i + 1] = 40)
          THEN <<32, 93>> ELSE <<s[i]>>)
         \o CloseFrom(s, i + 1)

\* re.sub(r"(?<=[^\s\]\[])\](?!\()", " ]", temp), line 47
SpaceBeforeClose(s) == CloseFrom(s, 1)

RECURSIVE TrailFrom(_, _)
TrailFrom(s, i) ==
    IF i > Len(s) THEN <<>>
    ELSE LET e == RunEnd(s, i, 32)
         IN IF e >= i /\ e + 1 <= Len(s) /\ s[e + 1] = 10
            THEN <<10>> \o TrailFrom(s, e + 2)
            ELSE <<s[i]>> \o TrailFrom(s, i + 1)

\* re.sub(r" +\n", "\n", temp), line 52
StripLineEnds(s) == TrailFrom(s, 1)

RECURSIVE OpenQuoteFrom(_, _)
OpenQuoteFrom(s, i) ==
    IF i > Len(s) THEN <<>>
    ELSE LET e == RunEnd(s, i, 32)
             behind == i > 1 /\ IsWord(s[i - 1])
         IN IF behind /\ s[i] = 8220
            THEN <<32, 8220>> \o OpenQuoteFrom(s, i + 1)
            ELSE IF /\ behind /\ e - i + 1 >= 2
                    /\ e + 1 <= Len(s) /\ s[e + 1] = 8220
            THEN <<32, 8220>> \o OpenQuoteFrom(s, e + 2)
            ELSE <<s[i]>> \o OpenQuoteFrom(s, i + 1)

\* re.sub(r"(?<=\w)(\u201c| {2,}\u201c)", " \u201c", temp), line 55
SpaceBeforeOpenQuote(s) == OpenQuoteFrom(s, 1)

RECURSIVE CloseQuoteFrom(_, _)
CloseQuoteFrom(s, i) ==
    IF i > Len(s) THEN <<>>
    ELSE LET e == RunEnd(s, i + 1, 32)
         IN IF s[i] = 8221 /\ i + 1 <= Len(s) /\ IsWord(s[i + 1])
            THEN <<8221, 32>> \o CloseQuoteFrom(s, i + 1)
            ELSE IF /\ s[i] = 8221 /\ e - i >= 2
                    /\ e + 1 <= Len(s) /\ IsWord(s[e + 1])
            THEN <<8221, 32>> \o CloseQuoteFrom(s, e + 1)
            ELSE <<s[i]>> \o CloseQuoteFrom(s, i + 1)

\* re.sub(r"(\u201d|\u201d {2,})(?=\w)", "\u201d ", temp), line 56
SpaceAfterCloseQuote(s) == CloseQuoteFrom(s, 1)

\* re.search(r"`.*`", raw) is not None, line 58 (. does not match a newline)
HasCodeSpan(s) ==
    \E i, j \in 1..Len(s) :
        /\ i < j /\ s[i] = 96 /\ s[j] = 96
        /\ \A k \in (i + 1)..(j - 1) : s[k] # 10

FormatResult(o, q) == [output |-> o, questionable |-> q]

formatfunc_default(s) ==
    LET t1 == Strip(s) \o <<10>>
        t2 == CollapseNewlines(t1)
        t3 == SpaceAfterOpen(t2)
        t4 == SpaceBeforeClose(t3)
        t5 == StripLineEnds(t4)
        t6 == SpaceBeforeOpenQuote(t5)
        t7 == SpaceAfterCloseQuote(t6)
    IN FormatResult(t7, HasCodeSpan(s))

(***************************************************************************)
(* Paths: a path is the sequence of its parts, a part is a sequence of     *)
(* code points                                                             *)
(***************************************************************************)
Dot == 46

\* position of the last "." of a name that starts a suffix, 0 if none
\* (pathlib: 0 < i < len(name) - 1 for i = name.rfind("."))
SuffixAt(name) ==
    LET dots == {i \in 1..Len(name) : name[i] = Dot}
        i == CHOOSE j \in dots : \A k \in dots : k <= j
    IN IF dots = {} THEN 0
       ELSE IF 1 < i /\ i < Len(name) THEN i ELSE 0

\* Path.name
PathName(p) == p[Len(p)]

\* Path.suffix
PathSuffix(p) ==
    LET n == PathName(p)
        i == SuffixAt(n)
    IN IF i = 0 THEN <<>> ELSE SubSeq(n, i, Len(n))

\* Path.stem
PathStem(p) ==
    LET n == PathName(p)
        i == SuffixAt(n)
    IN IF i = 0 THEN n ELSE SubSeq(n, 1, i - 1)

\* Path.parent
PathParent(p) == SubSeq(p, 1, Len(p) - 1)

\* str.lower() on the ASCII letters
Lower(t) == [i \in 1..Len(t) |-> IF t[i] \in 65..90 THEN t[i] + 32 ELSE t[i]]

RECURSIVE LStripDot(_)
\* str.lstrip(".")
LStripDot(t) == IF t # <<>> /\ t[1] = Dot THEN LStripDot(Tail(t)) ELSE t

RECURSIVE StrLess(_, _)
\* a < b on str: by code point, a proper prefix first
StrLess(a, b) ==
    IF b = <<>> THEN FALSE
    ELSE IF a = <<>> THEN TRUE
    ELSE IF a[1] # b[1] THEN a[1] < b[1]
    ELSE StrLess(Tail(a), Tail(b))

RECURSIVE PathLess(_, _)
\* p < q on Path: by part
PathLess(p, q) ==
    IF q = <<>> THEN FALSE
    ELSE IF p = <<>> THEN TRUE
    ELSE IF p[1] # q[1] THEN StrLess(p[1], q[1])
    ELSE PathLess(Tail(p), Tail(q))

RECURSIVE Insert(_, _)
Insert(sorted, p) ==
    IF sorted = <<>> THEN <<p>>
    ELSE IF PathLess(p, sorted[1]) THEN <<p>> \o sorted
    ELSE <<sorted[1]>> \o Insert(Tail(sorted), p)

RECURSIVE Sorted(_)
\* list.sort() on a list of paths
Sorted(l) == IF l = <<>> THEN <<>> ELSE Insert(Sorted(Tail(l)), l[1])

(***************************************************************************)
(* The file system                                                         *)
(***************************************************************************)
Dir == [kind |-> "dir"]
File(text) == [kind |-> "file", text |-> text]

\* Path.is_file(), Path.is_dir(): both False on a path that does not exist
is_file(d, p) == p \in DOMAIN d /\ d[p].kind = "file"
is_dir(d, p) == p \in DOMAIN d /\ d[p].kind = "dir"

\* the entries Path.iterdir() yields, in an order the system chooses
Children(d, p) == {q \in DOMAIN d : Len(q) = Len(p) + 1 /\ PathParent(q) = p}

\* all the orders in which a set can be listed
Listings(S) ==
    {l \in [1..Cardinality(S) -> S] : \A i, j \in 1..Cardinality(S) :
                                         i # j => l[i] # l[j]}

\* open(p, "w").write(text)
WriteFile(d, p, text) ==
    [q \in DOMAIN d \cup {p} |-> IF q = p THEN File(text) ELSE d[q]]

(***************************************************************************)
(* iterdir (lines 12-29)                                                   *)
(***************************************************************************)
NoSuffixes == None
Suffixes(S) == [items |-> S]

\* ".md"
DotMd == <<46, 109, 100>>

\* not suffixes: None or empty (line 18)
NotSuffixes(sfx) == sfx = NoSuffixes \/ sfx.items = {}

\* lines 17-20
IterdirEnter ==
    /\ ipc = "call"
    /\ stack' = <<path>>
    /\ suffixes' = IF NotSuffixes(suffixes) THEN Suffixes({DotMd}) ELSE suffixes
    /\ result' = <<>>
    /\ ipc' = "loop"
    /\ UNCHANGED <<disk, path, recursive>>
    /\ UNCHANGED <<classVars, funcVars, runVars, statVars>>

\* the directories the walk lists (line 27)
Descends(d, p, rec) == is_dir(d, p) /\ rec

\* lines 24-25
Selected(p, sfx) ==
    LET suffix == Lower(PathSuffix(p))
    IN suffix \in sfx.items \/ LStripDot(suffix) \in sfx.items

\* one iteration of the loop of lines 21-28
IterdirStep ==
    /\ ipc = "loop"
    /\ stack # <<>>
    /\ LET p == stack[Len(stack)]
           rest == SubSeq(stack, 1, Len(stack) - 1)
       IN IF is_file(disk, p)
          THEN /\ result' = IF Selected(p, suffixes)
                            THEN Append(result, p) ELSE result
               /\ stack' = rest
          ELSE IF Descends(disk, p, recursive)
          THEN /\ \E l \in Listings(Children(disk, p)) : stack' = rest \o l
               /\ UNCHANGED result
          ELSE /\ stack' = rest
               /\ UNCHANGED result
    /\ UNCHANGED <<disk, path, suffixes, recursive, ipc>>
    /\ UNCHANGED <<classVars, funcVars, runVars, statVars>>

\* line 29
IterdirReturn ==
    /\ ipc = "loop"
    /\ stack = <<>>
    /\ ipc' = "returned"
    /\ UNCHANGED <<disk, path, suffixes, recursive, stack, result>>
    /\ UNCHANGED <<classVars, funcVars, runVars, statVars>>

(***************************************************************************)
(* format (lines 65-83)                                                    *)
(***************************************************************************)
\* "_raw"
RawMark == <<95, 114, 97, 119>>

\* lines 78-80
CopyTo(p) == PathParent(p) \o <<PathStem(p) \o RawMark \o PathSuffix(p)>>

\* lines 72-74
FormatOpen ==
    /\ ipc = "returned"
    /\ rpc = "next"
    /\ cur <= Len(result)
    /\ fmt_raw' = disk[result[cur]].text
    /\ fmt_result' = formatfunc_default(disk[result[cur]].text)
    /\ rpc' = "write"
    /\ UNCHANGED <<disk, walkVars, cur, warned>>
    /\ UNCHANGED <<classVars, funcVars, statVars>>

\* lines 75-77
FormatWrite ==
    /\ rpc = "write"
    /\ disk' = WriteFile(disk, result[cur], fmt_result.output)
    /\ IF fmt_result.questionable
       THEN rpc' = "backup" /\ UNCHANGED cur
       ELSE rpc' = "next" /\ cur' = cur + 1
    /\ UNCHANGED <<walkVars, fmt_raw, fmt_result, warned>>
    /\ UNCHANGED <<classVars, funcVars, statVars>>

\* lines 78-83
FormatBackup ==
    /\ rpc = "backup"
    /\ disk' = WriteFile(disk, CopyTo(result[cur]), fmt_raw)
    /\ warned' = Append(warned, result[cur])
    /\ rpc' = "next"
    /\ cur' = cur + 1
    /\ UNCHANGED <<walkVars, fmt_raw, fmt_result>>
    /\ UNCHANGED <<classVars, funcVars, statVars>>

\* the loop of line 71 is exhausted
FormatReturn ==
    /\ ipc = "returned"
    /\ rpc = "next"
    /\ cur > Len(result)
    /\ rpc' = "done"
    /\ UNCHANGED <<disk, walkVars, cur, fmt_raw, fmt_result, warned>>
    /\ UNCHANGED <<classVars, funcVars, statVars>>

(***************************************************************************)
(* statistics (lines 108-199)                                              *)
(***************************************************************************)
Missing == [exists |-> FALSE, reports |-> <<>>]
Existing(reports) == [exists |-> TRUE, reports |-> reports]

RedirectTo(name) == [name |-> name]

\* dict.update(other): the counts of other replace those of a
Replaced(a, b) == b

\* Counter.update(other): the counts of other are added (line 181)
Update(a, b) == [k \in Keys |-> a[k] + b[k]]

\* lines 116-122
StatStart ==
    /\ ipc = "returned"
    /\ spc = "start"
    /\ files' = Len(result)
    /\ print_verbosely' = (verbose /\ Len(result) > 0)
    /\ inventory' = <<>>
    /\ path_list' = Sorted(result)
    /\ stat' = Stat
    /\ sidx' = 1
    /\ spc' = "loop"
    /\ UNCHANGED <<disk, walkVars, verbose, redirect_to, redirect_mode,
                   target, printed>>
    /\ UNCHANGED <<classVars, funcVars, runVars>>

\* one iteration of the loop of lines 124-184; line 172 raises IndexError
\* when re.findall returned no match
StatFile ==
    /\ spc = "loop"
    /\ sidx <= Len(path_list)
    /\ LET i == path_list[sidx]
           text == disk[i].text
       IN IF FindAll(text) = <<>>
          THEN /\ spc' = "IndexError"
               /\ UNCHANGED <<stat, inventory, sidx>>
          ELSE /\ stat' = Update(stat, Tally(text))
               /\ inventory' = IF print_verbosely
                                THEN Append(inventory, <<PathName(i), Tally(text)>>)
                                ELSE inventory
               /\ sidx' = sidx + 1
               /\ UNCHANGED spc
    /\ UNCHANGED <<disk, walkVars, verbose, redirect_to, redirect_mode,
                   target, files, print_verbosely, path_list, printed>>
    /\ UNCHANGED <<classVars, funcVars, runVars>>

\* the report of lines 186-192
Message ==
    [files |-> files, stat |-> stat,
     details |-> IF print_verbosely THEN inventory ELSE <<>>]

\* open(redirect_to, mode=redirect_mode, ...) and f.write(message), lines
\* 195-196: <<outcome, file afterwards>>
OpenAndWrite(t, mode, message) ==
    IF mode = "w" THEN <<"done", Existing(<<message>>)>>
    ELSE IF mode = "a" THEN <<"done", Existing(Append(t.reports, message))>>
    ELSE IF mode = "x"
         THEN IF t.exists THEN <<"FileExistsError", t>>
              ELSE <<"done", Existing(<<message>>)>>
    ELSE <<"ValueError", t>>

\* lines 186-199
StatReport ==
    /\ spc = "loop"
    /\ sidx > Len(path_list)
    /\ IF redirect_to # None
       THEN /\ spc' = OpenAndWrite(target, redirect_mode, Message)[1]
            /\ target' = OpenAndWrite(target, redirect_mode, Message)[2]
            /\ UNCHANGED printed
       ELSE /\ printed' = Append(printed, Message)
            /\ spc' = "done"
            /\ UNCHANGED target
    /\ UNCHANGED <<disk, walkVars, verbose, redirect_to, redirect_mode,
                   files, print_verbosely, inventory, path_list, stat, sidx>>
    /\ UNCHANGED <<classVars, funcVars, runVars>>

(***************************************************************************)
(* Specifications                                                          *)
(***************************************************************************)
ClassIdle == raw = <<>> /\ goups = <<>> /\ fstat = Stat /\ cpc = "off"

FuncIdle == fraw = <<>> /\ once = None /\ twice = None /\ fpc = "off"

WalkIdle ==
    /\ disk = <<>>
    /\ path = <<>> /\ suffixes = None /\ recursive = FALSE
    /\ stack = <<>> /\ result = <<>> /\ ipc = "off"

RunIdle ==
    /\ cur = 0 /\ fmt_raw = <<>> /\ fmt_result = None /\ warned = <<>>
    /\ rpc = "off"

StatIdle ==
    /\ verbose = FALSE /\ redirect_to = None /\ redirect_mode = "w"
    /\ target = Missing
    /\ files = 0 /\ print_verbosely = FALSE /\ inventory = <<>>
    /\ path_list = <<>> /\ stat = Stat /\ sidx = 0 /\ printed = <<>>
    /\ spc = "off"

\* ---- the classifier on every document up to MaxDocLen
ClassNext == Scan \/ EofAdjust \/ Derive

InitClassify == ClassInit /\ FuncIdle /\ WalkIdle /\ RunIdle /\ StatIdle

SpecClassify == InitClassify /\ [][ClassNext]_vars

\* ---- the format function, applied to a document and to its own output
FormatDocs ==
    DocsOver(FormatChars, MaxFormatLen) \cup DocsOver(BlankChars, MaxBlankLen)

FuncInit ==
    /\ fraw \in FormatDocs
    /\ once = None
    /\ twice = None
    /\ fpc = "raw"

FormatOnce ==
    /\ fpc = "raw"
    /\ once' = formatfunc_default(fraw)
    /\ fpc' = "once"
    /\ UNCHANGED <<fraw, twice>>
    /\ UNCHANGED <<classVars, disk, walkVars, runVars, statVars>>

FormatAgain ==
    /\ fpc = "once"
    /\ twice' = formatfunc_default(once.output)
    /\ fpc' = "twice"
    /\ UNCHANGED <<fraw, once>>
    /\ UNCHANGED <<classVars, disk, walkVars, runVars, statVars>>

FuncNext == FormatOnce \/ FormatAgain

InitFormatFunc == FuncInit /\ ClassIdle /\ WalkIdle /\ RunIdle /\ StatIdle

SpecFormatFunc == InitFormatFunc /\ [][FuncNext]_vars

\* ---- iterdir on a small tree
\* the paths d, d/a.md, d/B.MD, d/c.txt, d/sub, d/sub/e.md and nope
pD == << <<100>> >>
pA == << <<100>>, <<97, 46, 109, 100>> >>
pB == << <<100>>, <<66, 46, 77, 68>> >>
pC == << <<100>>, <<99, 46, 116, 120, 116>> >>
pSub == << <<100>>, <<115, 117, 98>> >>
pE == << <<100>>, <<115, 117, 98>>, <<101, 46, 109, 100>> >>
pNope == << <<110, 111, 112, 101>> >>

\* the tree with the directories dirs and the files of texts (path -> text)
Tree(dirs, texts) ==
    [q \in dirs \cup DOMAIN texts |->
        IF q \in dirs THEN Dir ELSE File(texts[q])]

IterTrees ==
    {Tree({pD} \cup S, [q \in F |-> <<>>]) :
        F \in SUBSET {pA, pB, pC}, S \in {{}, {pSub}, {pSub, pE}}}

\* None, [], ["md"], [".txt", ".md"]
SuffixArgs ==
    {None, Suffixes({}), Suffixes({<<109, 100>>}),
     Suffixes({<<46, 116, 120, 116>>, DotMd})}

IterInit ==
    /\ disk \in IterTrees
    /\ path \in {pD, pA, pSub, pNope}
    /\ suffixes \in SuffixArgs
    /\ recursive \in BOOLEAN
    /\ stack = <<>>
    /\ result = <<>>
    /\ ipc = "call"

IterNext == IterdirEnter \/ IterdirStep \/ IterdirReturn

InitIterdir == IterInit /\ ClassIdle /\ FuncIdle /\ RunIdle /\ StatIdle

SpecIterdir == InitIterdir /\ [][IterNext]_vars

\* ---- format on a small tree
pAraw == << <<100>>, <<97, 95, 114, 97, 119, 46, 109, 100>> >>

\* "a\n", "[a]", "`a` [a]", "`a`\n"
FormatTexts ==
    {<<97, 10>>, <<91, 97, 93>>, <<96, 97, 96, 32, 91, 97, 93>>,
     <<96, 97, 96, 10>>}

\* d/a.md, and d/a_raw.md and d/sub/e.md or not
FormatTrees ==
    {Tree(IF pE \in DOMAIN t THEN {pD, pSub} ELSE {pD}, t) :
        t \in UNION {[{pA} \cup F -> FormatTexts] : F \in SUBSET {pAraw, pE}}}

RunInit ==
    /\ disk \in FormatTrees
    /\ path \in {pD, pA}
    /\ suffixes = None
    /\ recursive \in BOOLEAN
    /\ stack = <<>>
    /\ result = <<>>
    /\ ipc = "call"
    /\ cur = 1
    /\ fmt_raw = <<>>
    /\ fmt_result = None
    /\ warned = <<>>
    /\ rpc = "next"

RunNext ==
    \/ IterdirEnter \/ IterdirStep \/ IterdirReturn
    \/ FormatOpen \/ FormatWrite \/ FormatBackup \/ FormatReturn

InitFormat == RunInit /\ ClassIdle /\ FuncIdle /\ StatIdle

SpecFormat == InitFormat /\ [][RunNext]_vars

\* ---- statistics on a small tree
\* "", "a\n", U+597D "\n\nb"
StatTexts == {<<>>, <<97, 10>>, <<22909, 10, 10, 98>>}

StatTrees ==
    {Tree(IF pE \in DOMAIN t THEN {pD, pSub} ELSE {pD}, t) :
        t \in UNION {[F -> StatTexts] : F \in SUBSET {pA, pB, pE}}}

\* "out.txt"
OutName == <<111, 117, 116, 46, 116, 120, 116>>

RedirectModes == {"w", "a", "x", "q"}

\* a report file left by an earlier run over no file
OldReport == [files |-> 0, stat |-> Stat, details |-> <<>>]

StatInit ==
    /\ disk \in StatTrees
    /\ path \in {pD, pNope}
    /\ suffixes = None
    /\ recursive = TRUE
    /\ stack = <<>>
    /\ result = <<>>
    /\ ipc = "call"
    /\ verbose \in BOOLEAN
    /\ redirect_to \in {None, RedirectTo(OutName)}
    /\ redirect_mode \in RedirectModes
    /\ target \in {Missing, Existing(<<OldReport>>)}
    /\ redirect_to = None => redirect_mode = "w" /\ target = Missing
    /\ files = 0
    /\ print_verbosely = FALSE
    /\ inventory = <<>>
    /\ path_list = <<>>
    /\ stat = Stat
    /\ sidx = 1
    /\ printed = <<>>
    /\ spc = "start"

StatNext ==
    \/ IterdirEnter \/ IterdirStep \/ IterdirReturn
    \/ StatStart \/ StatFile \/ StatReport

InitStatistics == StatInit /\ ClassIdle /\ FuncIdle /\ RunIdle

SpecStatistics == InitStatistics /\ [][StatNext]_vars

(***************************************************************************)
(* Properties                                                              *)
(***************************************************************************)
NewlinesIn(s) == Cardinality({i \in 1..Len(s) : s[i] = 10})

WordLike(c) ==
    IsCJK(c) \/ IsCJKExt(c) \/ IsHiragana(c) \/ IsKatakana(c) \/ IsWord(c)

\* C1: once a document is scanned, every character of it is counted in
\* exactly one of words, punctuations, whitespaces and other_chars: the four
\* counts add up to the length of the document, words counts the word
\* characters (the ideographs and kana among them, which CJK, Hiragana and
\* Katakana count again), whitespaces the whitespace characters and
\* punctuations the rest.
C1_EveryCharacterCountedOnce ==
    cpc \in {"scanned", "adjusted", "done", "IndexError"} =>
        /\ fstat["words"] + fstat["punctuations"] + fstat["whitespaces"]
              + fstat["other_chars"] = Len(raw)
        /\ fstat["words"] = Cardinality({i \in 1..Len(raw) : WordLike(raw[i])})
        /\ fstat["whitespaces"] =
              Cardinality({i \in 1..Len(raw) : IsSpace(raw[i])})
        /\ fstat["punctuations"] =
              Cardinality({i \in 1..Len(raw) :
                              ~WordLike(raw[i]) /\ ~IsSpace(raw[i])})
        /\ fstat["CJK"] + fstat["Hiragana"] + fstat["Katakana"] <= fstat["words"]

\* a scanned document with an ideograph, a newline run of two characters or
\* more and a character of another category
C1_Witness ==
    /\ cpc = "scanned"
    /\ fstat["CJK"] >= 1
    /\ fstat["paragraphs"] >= 1
    /\ fstat["whitespaces"] >= 2
    /\ fstat["words"] + fstat["punctuations"] >= 2

\* the newlines of the last matched unit when it is a newline run, else 0
LastRunNewlines == NewlinesIn(goups[Len(goups)][7])

\* C2 (as amended): the end-of-file adjustment of a non-empty document
\* depends only on its last matched unit: not a newline run, paragraphs,
\* non_blank_lines and lines each go up by 1; a newline run with exactly one
\* newline, paragraphs goes up by 1; a run with two newlines or more, nothing
\* changes. No other category changes, and lines ends as the number of
\* newlines of the document, plus 1 when the last unit is not a newline run.
C2_EofAdjustment ==
    [][(cpc = "scanned" /\ cpc' = "adjusted") =>
        /\ LastRunNewlines = 0 =>
              fstat' = [fstat EXCEPT !["paragraphs"] = @ + 1,
                                     !["non_blank_lines"] = @ + 1,
                                     !["lines"] = @ + 1]
        /\ LastRunNewlines = 1 =>
              fstat' = [fstat EXCEPT !["paragraphs"] = @ + 1]
        /\ LastRunNewlines >= 2 => fstat' = fstat
        /\ fstat'["lines"] =
              NewlinesIn(raw) + (IF LastRunNewlines = 0 THEN 1 ELSE 0)]_vars

\* an adjusted document with a newline inside that does not end in a
\* newline run
C2_Witness ==
    /\ cpc = "adjusted"
    /\ LastRunNewlines = 0
    /\ NewlinesIn(raw) >= 1
    /\ fstat["lines"] = NewlinesIn(raw) + 1

\* C2 (as stated): when the last unit is not a newline run only paragraphs
\* and non_blank_lines go up, so that lines is the number of newlines of the
\* document in all three cases.
C2_LinesAreNewlines ==
    [][(cpc = "scanned" /\ cpc' = "adjusted") =>
        /\ LastRunNewlines = 0 =>
              fstat' = [fstat EXCEPT !["paragraphs"] = @ + 1,
                                     !["non_blank_lines"] = @ + 1]
        /\ LastRunNewlines = 1 =>
              fstat' = [fstat EXCEPT !["paragraphs"] = @ + 1]
        /\ LastRunNewlines >= 2 => fstat' = fstat
        /\ fstat'["lines"] = NewlinesIn(raw)]_vars

RECURSIVE SumTallies(_)
\* the category-wise sum, over the files of S, of each file's own tally
SumTallies(S) ==
    IF S = {} THEN [k \in Keys |-> 0]
    ELSE LET p == CHOOSE q \in S : TRUE
             t == Tally(disk[p].text)
             rest == SumTallies(S \ {p})
         IN [k \in Keys |-> t[k] + rest[k]]

Processed == {path_list[i] : i \in 1..(sidx - 1)}

\* C3: after each file the aggregate holds, for every category and derived
\* total, the sum of the tallies of the files processed so far, each the
\* tally of that file's content; the inventory records those tallies; and
\* the final aggregate is the sum over the set of selected files, whatever
\* the order in which iterdir found them.
C3_AggregateIsSum ==
    spc \in {"loop", "done", "IndexError", "ValueError", "FileExistsError"} =>
        /\ stat = SumTallies(Processed)
        /\ stat["chars_no_spaces"] =
              stat["words"] + stat["punctuations"] + stat["other_chars"]
        /\ stat["chars_with_spaces"] =
              stat["chars_no_spaces"] + stat["whitespaces"]
        /\ print_verbosely =>
              /\ Len(inventory) = sidx - 1
              /\ \A i \in 1..Len(inventory) :
                    inventory[i] = <<PathName(path_list[i]),
                                     Tally(disk[path_list[i]].text)>>
        /\ spc = "done" =>
              stat = SumTallies({result[i] : i \in 1..Len(result)})

\* a finished run over three files
C3_Witness ==
    /\ spc = "done"
    /\ files = 3
    /\ stat["words"] >= 3
    /\ stat["lines"] >= 3

\* C4: while a file whose result is questionable is being handled, its
\* original text is on disk, in the file itself or in its backup.
C4_OriginalOnDisk ==
    (rpc \in {"write", "backup"} /\ fmt_result.questionable) =>
        \/ disk[result[cur]].text = fmt_raw
        \/ /\ is_file(disk, CopyTo(result[cur]))
           /\ disk[CopyTo(result[cur])].text = fmt_raw

\* C5: formatting the output of the format function gives that output back.
C5_Idempotent == fpc = "twice" => twice.output = once.output

HasTripleNewline(s) ==
    \E i \in 1..(Len(s) - 2) : s[i] = 10 /\ s[i + 1] = 10 /\ s[i + 2] = 10

\* C6: the output of the format function has no run of three newlines.
C6_NoTripleNewline ==
    fpc \in {"once", "twice"} => ~HasTripleNewline(once.output)

\* C7: with a redirect target and a mode other than "w" and "a", statistics
\* opens no input file and does not complete.
C7_InvalidModeRejectedFirst ==
    (redirect_to # None /\ redirect_mode \notin {"w", "a"}) =>
        /\ sidx = 1
        /\ spc # "done"

\* C8: for a directory and recursive=False, iterdir returns exactly the
\* matching files that are immediate children of the directory.
C8_ImmediateChildren ==
    (ipc = "returned" /\ is_dir(disk, path) /\ ~recursive) =>
        {result[i] : i \in 1..Len(result)} =
            {q \in Children(disk, path) :
                is_file(disk, q) /\ Selected(q, suffixes)}

\* C9: iterdir does not return a list for a path that does not exist.
C9_MissingRootRaises == ipc = "returned" => path \in DOMAIN disk

\* C10: the scan of a selected file never fails.
C10_EveryFileTallied == spc # "IndexError"

====
